---- MODULE Spec2Model ----
(***************************************************************************)
(* Model of the LangChain custom chatbot: CustomChatbot (src/src/chatbot.py)*)
(* over SecureMemoryManager (src/src/memory_manager.py) and SecurityConfig *)
(* (src/src/config.py).                                                    *)
(*                                                                         *)
(* Text is a sequence of one-character strings.  The LangChain objects the *)
(* code holds are modelled by what the code's calls do to them:            *)
(*   - memory.chat_memory.messages is a list that add_message and          *)
(*     save_context append to and clear() empties; the window k of         *)
(*     ConversationBufferWindowMemory only limits what is loaded as        *)
(*     context (the last 2k messages), it never removes stored messages;   *)
(*   - ConversationChain.predict loads the context from its memory, calls  *)
(*     the model and then saves the exchange to that same memory           *)
(*     (save_context: one human and one ai message, raw text);             *)
(*   - ConversationSummaryMemory.save_context appends the exchange to its  *)
(*     own chat_memory and then asks the summarizer for a new buffer.      *)
(***************************************************************************)
EXTENDS Integers, Sequences, FiniteSets, TLC

\* ------------------------------------------------------------------ bounds
MaxChats == 1      \* accepted chat calls per run, all operations in use
MaxChatOnly == 1   \* accepted chat calls per run, chat the only operation
MaxLongChats == 6  \* successful chat calls per run of the long conversation
MaxTime == 1       \* readings of datetime.now() range over 0..MaxTime
MaxDigest == 4     \* stats and export run while the summary memory holds at most this many exchanges
MaxFailAt == 1     \* the summarizer call that may raise: none, or 1..MaxFailAt
MaxSessionChats == 2  \* accepted chat calls per run, over the two chatbots
MaxSerialChats == 2   \* accepted chat calls after which no caller comes back, calls one at a time
MaxAppends == 3       \* messages add_message accepts between two clears, the memory manager alone

\* ------------------------------------------------------- program constants
MAX_INPUT_LENGTH == 1000
k == 10
window_size == 10

\* -------------------------------------------------------------------- text
Rep(c, n) == [i \in 1..n |-> c]

Whitespace == {" ", "\t", "\n"}

UpperChars == <<"A","B","C","D","E","F","G","H","I","J","K","L","M",
                "N","O","P","Q","R","S","T","U","V","W","X","Y","Z">>
LowerChars == <<"a","b","c","d","e","f","g","h","i","j","k","l","m",
                "n","o","p","q","r","s","t","u","v","w","x","y","z">>

\* str.lower() on one character
ToLower ==
    [c \in {UpperChars[i] : i \in 1..26} |->
        LowerChars[CHOOSE i \in 1..26 : UpperChars[i] = c]]

LowerChar(c) == IF c \in DOMAIN ToLower THEN ToLower[c] ELSE c

lower_none(s) == s

\* str.lower()
lower(s) == [i \in 1..Len(s) |-> LowerChar(s[i])]

strip_none(s) == s

\* str.strip(): drop leading and trailing whitespace
strip(s) ==
    IF \A i \in 1..Len(s) : s[i] \in Whitespace THEN <<>>
    ELSE LET first == CHOOSE i \in 1..Len(s) :
                          /\ s[i] \notin Whitespace
                          /\ \A j \in 1..(i - 1) : s[j] \in Whitespace
             last  == CHOOSE i \in 1..Len(s) :
                          /\ s[i] \notin Whitespace
                          /\ \A j \in (i + 1)..Len(s) : s[j] \in Whitespace
         IN  SubSeq(s, first, last)

\* len(s.split()): the number of maximal runs of non-whitespace characters
WordCount(s) ==
    Cardinality({i \in 1..Len(s) :
                    /\ s[i] \notin Whitespace
                    /\ (i = 1 \/ s[i-1] \in Whitespace)})

\* pattern in s
Contains(s, p) ==
    \E i \in 1..(Len(s) - Len(p) + 1) :
        \A j \in 1..Len(p) : s[i + j - 1] = p[j]

\* --------------------------------------------------------------- config.py
validate_input_length_off_by_one(text) == Len(text) <= MAX_INPUT_LENGTH + 1

validate_input_length(text) == Len(text) <= MAX_INPUT_LENGTH

\* -------------------------------------------------------------- chatbot.py
dangerous_patterns ==
    << <<"s","c","r","i","p","t">>,
       <<"j","a","v","a","s","c","r","i","p","t",":">>,
       <<"d","a","t","a",":">>,
       <<"v","b","s","c","r","i","p","t",":">>,
       <<"<","s","c","r","i","p","t">>,
       <<"<","/","s","c","r","i","p","t",">">>,
       <<"o","n","l","o","a","d","=">>,
       <<"o","n","e","r","r","o","r","=">> >>

_validate_input_unstripped(user_input) ==
    IF ~validate_input_length(user_input) THEN FALSE
    ELSE IF user_input = <<>> THEN FALSE
    ELSE LET input_lower == lower(user_input)
         IN  ~\E n \in 1..Len(dangerous_patterns) :
                 Contains(input_lower, dangerous_patterns[n])

_validate_input(user_input) ==
    IF ~validate_input_length(user_input) THEN FALSE
    ELSE IF strip(user_input) = <<>> THEN FALSE
    ELSE LET input_lower == lower(user_input)
         IN  ~\E n \in 1..Len(dangerous_patterns) :
                 Contains(input_lower, dangerous_patterns[n])

\* A fixed message of the program, or the text of an exception: one opaque
\* token, so that every text is a sequence of strings.
Literal(str) == <<str>>

\* ------------------------------------------------------- memory_manager.py
\* SecureMemoryManager.__init__ at clock reading t
NewMemoryManager(t) ==
    [ memory |-> <<>>,
      summary_memory |-> [messages |-> 0, buffer |-> <<>>],
      conversation_metadata |->
          [start_time |-> t, message_count |-> 0, total_tokens |-> 0] ]

HumanMessage(content) == [type |-> "human", content |-> content]
AIMessage(content) == [type |-> "ai", content |-> content]

_sanitize_message(message) ==
    LET sanitized == strip(message)
    IN  IF Len(sanitized) > MAX_INPUT_LENGTH
        THEN SubSeq(sanitized, 1, MAX_INPUT_LENGTH)
        ELSE sanitized

add_message_uncounts(mm, message, is_human) ==
    IF ~validate_input_length(message) THEN [mm |-> mm, ok |-> FALSE]
    ELSE LET sanitized_message == _sanitize_message(message)
             msg_obj == IF is_human THEN HumanMessage(sanitized_message)
                        ELSE AIMessage(sanitized_message)
             md == mm.conversation_metadata
         IN  [ mm |-> [mm EXCEPT
                   !.memory = Append(mm.memory, msg_obj),
                   !.conversation_metadata =
                       [md EXCEPT
                           !.message_count = md.message_count - 1,
                           !.total_tokens =
                               md.total_tokens + WordCount(sanitized_message)]],
               ok |-> TRUE ]

\* The except branch (lines 86-88) is not reached: message is a str, and
\* nothing in the try block raises for a str of accepted length.
add_message(mm, message, is_human) ==
    IF ~validate_input_length(message) THEN [mm |-> mm, ok |-> FALSE]
    ELSE LET sanitized_message == _sanitize_message(message)
             msg_obj == IF is_human THEN HumanMessage(sanitized_message)
                        ELSE AIMessage(sanitized_message)
             md == mm.conversation_metadata
         IN  [ mm |-> [mm EXCEPT
                   !.memory = Append(mm.memory, msg_obj),
                   !.conversation_metadata =
                       [md EXCEPT
                           !.message_count = md.message_count + 1,
                           !.total_tokens =
                               md.total_tokens + WordCount(sanitized_message)]],
               ok |-> TRUE ]

\* ConversationBufferWindowMemory.load_memory_variables: the last 2k messages
load_memory_variables(mm) ==
    LET n == Len(mm.memory)
    IN  IF n <= 2 * k THEN mm.memory ELSE SubSeq(mm.memory, n - 2 * k + 1, n)

\* The external summarizer, summarize(existing_digest, new_text): the digest
\* is kept as the sequence of the texts folded into it, in order.
predict_new_summary(buffer, content) == Append(buffer, content)

HumanContents(messages) ==
    LET humans == SelectSeq(messages, LAMBDA m : m.type = "human")
    IN  [i \in 1..Len(humans) |-> humans[i].content]

\* The loop of get_conversation_summary over the human messages: each
\* summary_memory.save_context appends the exchange (2 messages) to the summary
\* memory's own chat_memory and then calls the summarizer, which raises at
\* its call number failAt (0: never).
RECURSIVE save_contexts(_, _, _)
save_contexts(sm, contents, failAt) ==
    IF contents = <<>> THEN [sm |-> sm, raised |-> FALSE]
    ELSE LET saved == [sm EXCEPT !.messages = @ + 2]
         IN  IF failAt = 1 THEN [sm |-> saved, raised |-> TRUE]
             ELSE save_contexts(
                      [saved EXCEPT !.buffer = predict_new_summary(@, Head(contents))],
                      Tail(contents), failAt - 1)

get_conversation_summary(mm, failAt) ==
    IF mm.memory = <<>>
    THEN [mm |-> mm,
          summary |-> [text |-> "No conversation history available.",
                       history |-> <<>>]]
    ELSE LET r == save_contexts(mm.summary_memory, HumanContents(mm.memory), failAt)
         IN  IF r.raised
             THEN [mm |-> [mm EXCEPT !.summary_memory = r.sm],
                   summary |-> [text |-> "Error generating conversation summary.",
                                history |-> <<>>]]
             ELSE [mm |-> [mm EXCEPT !.summary_memory = r.sm],
                   summary |-> [text |-> "history", history |-> r.sm.buffer]]

clear_memory_keeps_metadata(mm, t) ==
    [mm |-> [NewMemoryManager(t) EXCEPT
                !.conversation_metadata = mm.conversation_metadata],
     ok |-> TRUE]

clear_memory_keeps_summary(mm, t) ==
    [mm |-> [NewMemoryManager(t) EXCEPT !.summary_memory = mm.summary_memory],
     ok |-> TRUE]

clear_memory(mm, t) ==
    [mm |-> NewMemoryManager(t), ok |-> TRUE]

get_memory_stats(mm) ==
    [ total_messages |-> Len(mm.memory),
      conversation_metadata |-> mm.conversation_metadata,
      memory_type |-> "ConversationBufferWindowMemory",
      window_size |-> window_size,
      has_summary |-> mm.summary_memory.messages > 0 ]

export_memory(mm, t, failAt) ==
    LET s == get_conversation_summary(mm, failAt)
    IN  [ mm |-> s.mm,
          exported_data |->
            [ messages |-> [i \in 1..Len(mm.memory) |->
                              [ type |-> IF mm.memory[i].type = "human"
                                         THEN "human" ELSE "ai",
                                content |-> mm.memory[i].content,
                                timestamp |-> t ]],
              metadata |-> mm.conversation_metadata,
              summary |-> s.summary ] ]

\* -------------------------------------------------------------- chatbot.py
\* ConversationChain.predict(input=user_input) with memory=memory_manager.memory.
\* llm: the outcome of the external model call, [ok, text]: the reply, or the
\* text of the exception it raised.  The chain saves the exchange to its memory
\* (save_context) only when the call returned.
predict_no_save(mm, user_input, llm) ==
    [ mm |-> mm,
      history |-> load_memory_variables(mm),
      raised |-> ~llm.ok,
      text |-> llm.text ]

predict(mm, user_input, llm) ==
    IF llm.ok
    THEN [ mm |-> [mm EXCEPT !.memory =
                      mm.memory \o <<HumanMessage(user_input), AIMessage(llm.text)>>],
           history |-> load_memory_variables(mm),
           raised |-> FALSE,
           text |-> llm.text ]
    ELSE [ mm |-> mm,
           history |-> load_memory_variables(mm),
           raised |-> TRUE,
           text |-> llm.text ]

\* env: what the environment does during the call:
\*   llm       the outcome of the external model call
\*   failAt    which summarizer call raises (0: none)
\* The body of chat's try block: the result it returns, or the exception
\* that leaves it (raised, with its text).
chat_try(mm, user_input, env) ==
    IF ~_validate_input(user_input)
    THEN [ mm |-> mm, raised |-> FALSE, text |-> <<>>,
           result |->
             [ response |-> Literal("I'm sorry, but your input doesn't meet our security requirements. Please try a shorter message."),
               success |-> FALSE,
               error |-> Literal("Input validation failed") ] ]
    ELSE LET a1 == add_message(mm, user_input, TRUE)
         IN  IF ~a1.ok
             THEN [ mm |-> a1.mm, raised |-> FALSE, text |-> <<>>,
                    result |->
                      [ response |-> Literal("I'm sorry, but I couldn't process your message. Please try again."),
                        success |-> FALSE,
                        error |-> Literal("Failed to add message to memory") ] ]
             ELSE LET p == predict(a1.mm, user_input, env.llm)
                  IN  IF p.raised
                      THEN [ mm |-> p.mm, raised |-> TRUE, text |-> p.text,
                             result |-> [success |-> FALSE] ]
                      ELSE LET a2 == add_message(p.mm, p.text, FALSE)
                               memory_stats == get_memory_stats(a2.mm)
                               s == get_conversation_summary(a2.mm, env.failAt)
                           IN  [ mm |-> s.mm, raised |-> FALSE, text |-> <<>>,
                                 result |->
                                   [ response |-> p.text,
                                     success |-> TRUE,
                                     memory_stats |-> memory_stats,
                                     conversation_summary |-> s.summary ] ]

chat_no_handler(mm, user_input, env) ==
    LET t == chat_try(mm, user_input, env)
    IN  IF t.raised
        THEN [mm |-> t.mm, result |-> [exception |-> t.text]]
        ELSE [mm |-> t.mm, result |-> t.result]

chat_rolls_back(mm, user_input, env) ==
    LET t == chat_try(mm, user_input, env)
    IN  IF t.raised
        THEN [ mm |-> mm,
               result |->
                 [ response |-> Literal("I'm sorry, but I encountered an error. Please try again."),
                   success |-> FALSE,
                   error |-> t.text ] ]
        ELSE [ mm |-> t.mm, result |-> t.result ]

\* chat: the try block and its except handler (error: str(e))
chat(mm, user_input, env) ==
    LET t == chat_try(mm, user_input, env)
    IN  IF t.raised
        THEN [ mm |-> t.mm,
               result |->
                 [ response |-> Literal("I'm sorry, but I encountered an error. Please try again."),
                   success |-> FALSE,
                   error |-> t.text ] ]
        ELSE [ mm |-> t.mm, result |-> t.result ]

get_conversation_history(mm) ==
    LET messages == mm.memory
        starts == {i \in 1..Len(messages) : i % 2 = 1 /\ i + 1 <= Len(messages)}
    IN  [n \in 1..Cardinality(starts) |->
            [human |-> messages[2 * n - 1].content,
             ai |-> messages[2 * n].content]]

clear_conversation(mm, t) == clear_memory(mm, t)

get_memory_info(mm, failAt) ==
    LET stats == get_memory_stats(mm)
        s == get_conversation_summary(mm, failAt)
    IN  [ mm |-> s.mm,
          result |->
            [ memory_stats |-> stats,
              conversation_summary |-> s.summary,
              total_messages |-> Len(s.mm.memory),
              memory_type |-> "ConversationBufferWindowMemory with Summary" ] ]

export_conversation(mm, t, failAt) == export_memory(mm, t, failAt)

get_bot_info ==
    [ name |-> "MemoryBot",
      personality |-> "You are a helpful AI assistant with memory capabilities. You remember conversations and provide contextual responses.",
      model |-> "gpt-3.5-turbo",
      memory_type |-> "ConversationBufferWindowMemory with Summary",
      security_features |-> << "Input length validation", "Content sanitization",
                               "Dangerous pattern detection", "Memory size limits" >> ]

\* ------------------------------------------------------------------ inputs
In_hi == <<"h","i">>
In_padded == <<" ","a"," ","b","\n">>
In_long == Rep("A", MAX_INPUT_LENGTH + 1)
In_huge == Rep(" ", MAX_INPUT_LENGTH + 200)
In_empty == <<>>
In_blank == <<" ","\t","\n">>
In_script == <<"a"," ","s","c","r","i","p","t">>
In_SCRIPT == <<"S","C","R","I","P","T">>
In_tag == <<"<","S","c","R","i","P","t",">">>
In_endtag == <<"x","<","/","S","C","R","I","P","T",">">>
In_javascript == <<"J","a","v","a","S","c","r","i","p","t",":","x">>
In_data == <<"x"," ","D","A","T","A",":","1">>
In_vbscript == <<"V","B","S","c","r","i","p","t",":">>
In_onload == <<"<","b"," ","O","n","L","o","a","d","=","1",">">>
In_onerror == <<"o","n","E","R","R","O","R","=">>

ValidInputs == {In_hi, In_padded}
DenylistedInputs == {In_script, In_SCRIPT, In_tag, In_endtag, In_javascript, In_data,
                     In_vbscript, In_onload, In_onerror}
OverLengthInputs == {In_long, In_huge}
EmptyInputs == {In_empty, In_blank}
\* the whole catalogue, and the part of it the full session is run with
AllInputs == ValidInputs \cup DenylistedInputs \cup OverLengthInputs \cup EmptyInputs
Inputs == ValidInputs \cup {In_long, In_blank, In_tag}

Resp_ok == <<"o","k">>
Resp_padded == <<"y","e","s"," ","\n">>
Resp_long == Rep("B", MAX_INPUT_LENGTH + 1)
Responses == {Resp_padded, Resp_long}
ShortResponses == {Resp_ok, Resp_padded}

ErrorTexts == {Literal("Connection error."),
               Literal("Incorrect API key provided: sk-live-1234")}

LLMReplies == [ok : {TRUE}, text : Responses]
LLMFailures == [ok : {FALSE}, text : ErrorTexts]

NoEnv == [llm |-> [ok |-> TRUE, text |-> Resp_ok], failAt |-> 0]

\* The environments that differ in what the call sees: the summarizer is
\* never reached once the model call has raised.
Envs ==
    {[NoEnv EXCEPT !.llm = o] : o \in LLMFailures}
    \cup [llm : LLMReplies, failAt : 0..MaxFailAt]

\* the model answers with a short reply and the summarizer works
AnsweredEnvs == [llm : [ok : {TRUE}, text : ShortResponses], failAt : {0}]

\* the inputs of the catalogue that pass validation
AcceptedInputs == {user_input \in AllInputs : _validate_input(user_input)}

\* ------------------------------------------------------------------- state
VARIABLES
    memory_manager,   \* the session's SecureMemoryManager
    now,              \* the reading datetime.now() gives
    call,             \* the last operation called: [op, user_input]
    result,           \* what it returned
    nChats,           \* chat calls that passed validation so far
    pc,               \* where each thread calling chat on the session is
    sessions          \* the SecureMemoryManager objects of several chatbots

vars == <<memory_manager, now, call, result, nChats, pc, sessions>>

\* the threads that call chat on one session, and a thread before its call
Threads == {1, 2}
Ready == [at |-> "ready", user_input |-> <<>>, text |-> <<>>]

\* the chatbots constructed side by side
Sessions == {1, 2}

Init ==
    /\ now = 0
    /\ memory_manager = NewMemoryManager(now)
    /\ call = [op |-> "init", user_input |-> <<>>]
    /\ result = [success |-> TRUE]
    /\ nChats = 0
    /\ pc = [t \in Threads |-> Ready]
    /\ sessions = [o \in Sessions |-> NewMemoryManager(now)]

\* the clock advances
Tick ==
    /\ now < MaxTime
    /\ now' = now + 1
    /\ UNCHANGED <<memory_manager, call, result, nChats, pc, sessions>>

ChatFrom(inputs, envs, limit) ==
    \E user_input \in inputs :
        LET valid == user_input \in AcceptedInputs
        IN  \E env \in IF valid THEN envs ELSE {NoEnv} :
                LET r == chat(memory_manager, user_input, env)
                IN  /\ valid => nChats < limit
                    /\ memory_manager' = r.mm
                    /\ result' = r.result
                    /\ call' = [op |-> "chat", user_input |-> user_input]
                    /\ nChats' = IF valid THEN nChats + 1 ELSE nChats
                    /\ UNCHANGED <<now, pc, sessions>>

Chat == ChatFrom(Inputs, Envs, MaxChats)

Clear ==
    LET r == clear_conversation(memory_manager, now)
    IN  /\ memory_manager' = r.mm
        /\ result' = [success |-> r.ok]
        /\ call' = [op |-> "clear", user_input |-> <<>>]
        /\ UNCHANGED <<now, nChats, pc, sessions>>

Stats ==
    \E failAt \in 0..MaxFailAt :
        LET r == get_memory_info(memory_manager, failAt)
        IN  /\ r.mm.summary_memory.messages <= 2 * MaxDigest
            /\ memory_manager' = r.mm
            /\ result' = r.result
            /\ call' = [op |-> "stats", user_input |-> <<>>]
            /\ UNCHANGED <<now, nChats, pc, sessions>>

Export ==
    \E failAt \in 0..MaxFailAt :
        LET r == export_conversation(memory_manager, now, failAt)
        IN  /\ r.mm.summary_memory.messages <= 2 * MaxDigest
            /\ memory_manager' = r.mm
            /\ result' = r.exported_data
            /\ call' = [op |-> "export", user_input |-> <<>>]
            /\ UNCHANGED <<now, nChats, pc, sessions>>

History ==
    /\ result' = [history |-> get_conversation_history(memory_manager)]
    /\ call' = [op |-> "history", user_input |-> <<>>]
    /\ UNCHANGED <<memory_manager, now, nChats, pc, sessions>>

Describe_with_stats ==
    /\ result' = [ name |-> get_bot_info.name,
                   personality |-> get_bot_info.personality,
                   model |-> get_bot_info.model,
                   memory_type |-> get_bot_info.memory_type,
                   security_features |-> get_bot_info.security_features,
                   total_messages |-> Len(memory_manager.memory) ]
    /\ call' = [op |-> "describe", user_input |-> <<>>]
    /\ UNCHANGED <<memory_manager, now, nChats, pc, sessions>>

Describe ==
    /\ result' = get_bot_info
    /\ call' = [op |-> "describe", user_input |-> <<>>]
    /\ UNCHANGED <<memory_manager, now, nChats, pc, sessions>>

Next ==
    \/ Tick
    \/ Chat
    \/ Clear
    \/ Stats
    \/ Export
    \/ History
    \/ Describe

Spec == Init /\ [][Next]_vars

\* chat is the only operation used, over the whole catalogue of inputs
ChatAny == ChatFrom(AllInputs, Envs, MaxChatOnly)

NextChat == ChatAny

SpecChat == Init /\ [][NextChat]_vars

\* a long conversation: every call is accepted and answered
ChatAnswered == ChatFrom(ValidInputs, AnsweredEnvs, MaxLongChats)

NextLong == ChatAnswered

SpecLong == Init /\ [][NextLong]_vars

\* ------------------------------------------------ concurrent calls of chat
\* Two threads call chat once each on the same CustomChatbot.  The code holds
\* no lock, so the threads interleave between the statements of chat; each
\* statement (an append to the list of messages, under the interpreter lock)
\* is one step.  The threads send different texts and get different replies,
\* so that a stored turn tells which call appended it.
ThreadInputs == [t \in Threads |-> IF t = 1 THEN {In_hi, In_tag}
                                   ELSE {In_padded, In_blank}]
ThreadReply == [t \in Threads |-> IF t = 1 THEN Resp_ok ELSE Resp_padded]
ThreadLLM(t) == {[ok |-> TRUE, text |-> ThreadReply[t]]} \cup LLMFailures

\* chat, lines 72-87: validation and the human turn; a rejected call returns
ChatBegin ==
    \E t \in Threads :
        /\ pc[t].at = "ready"
        /\ \E user_input \in ThreadInputs[t] :
               LET a1 == add_message(memory_manager, user_input, TRUE)
                   r == chat(memory_manager, user_input, NoEnv)
               IN  IF ~_validate_input(user_input) \/ ~a1.ok
                   THEN /\ memory_manager' = r.mm
                        /\ result' = r.result
                        /\ call' = [op |-> "chat", user_input |-> user_input]
                        /\ pc' = [pc EXCEPT ![t] =
                                     [Ready EXCEPT !.at = "done",
                                                   !.user_input = user_input]]
                        /\ UNCHANGED <<now, nChats, sessions>>
                   ELSE /\ memory_manager' = a1.mm
                        /\ pc' = [pc EXCEPT ![t] =
                                     [Ready EXCEPT !.at = "predict",
                                                   !.user_input = user_input]]
                        /\ nChats' = nChats + 1
                        /\ UNCHANGED <<now, call, result, sessions>>

ChatPredict_no_handler ==
    \E t \in Threads :
        /\ pc[t].at = "predict"
        /\ \E llm \in ThreadLLM(t) :
               LET p == predict(memory_manager, pc[t].user_input, llm)
               IN  /\ memory_manager' = p.mm
                   /\ IF p.raised
                      THEN /\ pc' = [pc EXCEPT ![t].at = "raised",
                                               ![t].text = p.text]
                           /\ UNCHANGED <<call, result>>
                      ELSE /\ pc' = [pc EXCEPT ![t].at = "store",
                                               ![t].text = p.text]
                           /\ UNCHANGED <<call, result>>
                   /\ UNCHANGED <<now, nChats, sessions>>

\* chat, line 90: the model call returns and the chain saves the exchange, or
\* it raises and the handler of lines 105-111 returns
ChatPredict ==
    \E t \in Threads :
        /\ pc[t].at = "predict"
        /\ \E llm \in ThreadLLM(t) :
               LET p == predict(memory_manager, pc[t].user_input, llm)
               IN  /\ memory_manager' = p.mm
                   /\ IF p.raised
                      THEN /\ result' =
                                [ response |-> Literal("I'm sorry, but I encountered an error. Please try again."),
                                  success |-> FALSE,
                                  error |-> p.text ]
                           /\ call' = [op |-> "chat",
                                       user_input |-> pc[t].user_input]
                           /\ pc' = [pc EXCEPT ![t].at = "done"]
                      ELSE /\ pc' = [pc EXCEPT ![t].at = "store",
                                               ![t].text = p.text]
                           /\ UNCHANGED <<call, result>>
                   /\ UNCHANGED <<now, nChats, sessions>>

\* chat, line 93: the assistant turn
ChatStore ==
    \E t \in Threads :
        /\ pc[t].at = "store"
        /\ memory_manager' = add_message(memory_manager, pc[t].text, FALSE).mm
        /\ pc' = [pc EXCEPT ![t].at = "finish"]
        /\ UNCHANGED <<now, call, result, nChats, sessions>>

\* chat, lines 96-103: the statistics, the summary and the result
ChatFinish ==
    \E t \in Threads :
        /\ pc[t].at = "finish"
        /\ \E failAt \in 0..MaxFailAt :
               LET memory_stats == get_memory_stats(memory_manager)
                   s == get_conversation_summary(memory_manager, failAt)
               IN  /\ memory_manager' = s.mm
                   /\ result' = [ response |-> pc[t].text,
                                  success |-> TRUE,
                                  memory_stats |-> memory_stats,
                                  conversation_summary |-> s.summary ]
                   /\ call' = [op |-> "chat", user_input |-> pc[t].user_input]
                   /\ pc' = [pc EXCEPT ![t].at = "done"]
                   /\ UNCHANGED <<now, nChats, sessions>>

NextConc ==
    \/ ChatBegin
    \/ ChatPredict
    \/ ChatStore
    \/ ChatFinish

SpecConc == Init /\ [][NextConc]_vars

\* --------------------------------------------------- one call at a time
\* The calls of chat come one after the other, as in the command-line loop:
\* a call begins only when no other call is in progress.  A call that has
\* begun goes on: the model call returns or raises, and the statements after
\* it run.
Processing(t) == pc[t].at \in {"predict", "store", "finish"}

SerialBegin ==
    /\ \A t \in Threads : ~Processing(t)
    /\ ChatBegin

\* the caller reads the result and comes back with its next message
SerialAgain ==
    \E t \in Threads :
        /\ pc[t].at = "done"
        /\ nChats < MaxSerialChats
        /\ pc' = [pc EXCEPT ![t] = Ready]
        /\ UNCHANGED <<memory_manager, now, call, result, nChats, sessions>>

NextSerial ==
    \/ SerialBegin
    \/ SerialAgain
    \/ ChatPredict
    \/ ChatStore
    \/ ChatFinish

SpecSerial ==
    /\ Init
    /\ [][NextSerial]_vars
    /\ WF_vars(ChatPredict \/ ChatStore \/ ChatFinish)

\* ---------------------------------------------------------- two chatbots
\* CustomChatbot.__init__: self.memory_manager = SecureMemoryManager(), an
\* object of its own for every chatbot constructed.  manager_of(s) is the
\* object chatbot s holds; sessions maps each object to its state.
manager_of_shared(s) == 1

manager_of(s) == s

SessionChat ==
    \E s \in Sessions, user_input \in ValidInputs \cup {In_tag} :
        LET valid == user_input \in AcceptedInputs
            o == manager_of(s)
        IN  \E env \in IF valid THEN AnsweredEnvs ELSE {NoEnv} :
                LET r == chat(sessions[o], user_input, env)
                IN  /\ valid => nChats < MaxSessionChats
                    /\ sessions' = [sessions EXCEPT ![o] = r.mm]
                    /\ result' = r.result
                    /\ call' = [op |-> "chat", user_input |-> user_input,
                                session |-> s]
                    /\ nChats' = IF valid THEN nChats + 1 ELSE nChats
                    /\ UNCHANGED <<memory_manager, now, pc>>

SessionClear ==
    \E s \in Sessions :
        LET o == manager_of(s)
            r == clear_conversation(sessions[o], now)
        IN  /\ sessions' = [sessions EXCEPT ![o] = r.mm]
            /\ result' = [success |-> r.ok]
            /\ call' = [op |-> "clear", user_input |-> <<>>, session |-> s]
            /\ UNCHANGED <<memory_manager, now, nChats, pc>>

SessionStats ==
    \E s \in Sessions, failAt \in 0..MaxFailAt :
        LET o == manager_of(s)
            r == get_memory_info(sessions[o], failAt)
        IN  /\ r.mm.summary_memory.messages <= 2 * MaxDigest
            /\ sessions' = [sessions EXCEPT ![o] = r.mm]
            /\ result' = r.result
            /\ call' = [op |-> "stats", user_input |-> <<>>, session |-> s]
            /\ UNCHANGED <<memory_manager, now, nChats, pc>>

SessionExport ==
    \E s \in Sessions, failAt \in 0..MaxFailAt :
        LET o == manager_of(s)
            r == export_conversation(sessions[o], now, failAt)
        IN  /\ r.mm.summary_memory.messages <= 2 * MaxDigest
            /\ sessions' = [sessions EXCEPT ![o] = r.mm]
            /\ result' = r.exported_data
            /\ call' = [op |-> "export", user_input |-> <<>>, session |-> s]
            /\ UNCHANGED <<memory_manager, now, nChats, pc>>

NextTwo ==
    \/ SessionChat
    \/ SessionClear
    \/ SessionStats
    \/ SessionExport

SpecTwo == Init /\ [][NextTwo]_vars

\* ---------------------------------------------------- _validate_input alone
\* texts close to the denylist that contain none of its substrings
In_scrip == <<"s","c","r","i","p"," ","t">>
In_skript == <<"S","k","r","i","p","t">>
In_data_word == <<"d","a","t","a">>
In_data_gap == <<"d","a","t","a"," ",":">>
In_onload_word == <<"o","n","l","o","a","d">>
In_onload_gap == <<"O","n","L","o","a","d"," ","=">>
In_onerror_gap == <<"o","n","e","r","r","o","r",":","=">>
In_tag_other == <<"<","b",">","h","i","<","/","b",">">>
In_letter == <<"Q">>

NearMisses == {In_scrip, In_skript, In_data_word, In_data_gap, In_onload_word,
               In_onload_gap, In_onerror_gap, In_tag_other, In_letter}

Cores == ValidInputs \cup DenylistedInputs \cup EmptyInputs \cup NearMisses

\* a text lengthened to exactly n characters, at its end or at its start
FillAfter(s, n) == s \o Rep("A", n - Len(s))
FillBefore(s, n) == Rep(" ", n - Len(s)) \o s

ValidateInputs ==
    Cores
    \cup OverLengthInputs
    \cup {<<" ">> \o c : c \in Cores}
    \cup {<<"Z">> \o c \o <<"!">> : c \in Cores}
    \cup {FillAfter(c, MAX_INPUT_LENGTH) : c \in Cores}
    \cup {FillBefore(c, MAX_INPUT_LENGTH) : c \in Cores}
    \cup {FillAfter(c, MAX_INPUT_LENGTH + 1) : c \in Cores}
    \cup {FillBefore(c, MAX_INPUT_LENGTH + 1) : c \in Cores}

InitValidate ==
    /\ now = 0
    /\ memory_manager = NewMemoryManager(now)
    /\ call \in {[op |-> "input", user_input |-> u] : u \in ValidateInputs}
    /\ result = [success |-> TRUE]
    /\ nChats = 0
    /\ pc = [t \in Threads |-> Ready]
    /\ sessions = [o \in Sessions |-> NewMemoryManager(now)]

Validate ==
    /\ call.op = "input"
    /\ result' = [valid |-> _validate_input(call.user_input)]
    /\ call' = [call EXCEPT !.op = "validate"]
    /\ UNCHANGED <<memory_manager, now, nChats, pc, sessions>>

NextValidate == Validate

SpecValidate == InitValidate /\ [][NextValidate]_vars

\* ------------------------------------------- SecureMemoryManager alone
\* The memory manager used through its own methods only, add_message and
\* clear_memory, with no conversation chain writing to its memory.
StoreMessages == {In_hi, In_padded, In_blank, In_long, Resp_long}

AddMessage ==
    \E message \in StoreMessages, is_human \in BOOLEAN :
        LET r == add_message(memory_manager, message, is_human)
        IN  /\ memory_manager.conversation_metadata.message_count < MaxAppends
            /\ memory_manager' = r.mm
            /\ result' = [success |-> r.ok]
            /\ call' = [op |-> "add_message", user_input |-> message]
            /\ UNCHANGED <<now, nChats, pc, sessions>>

ClearMemory ==
    LET r == clear_memory(memory_manager, now)
    IN  /\ memory_manager' = r.mm
        /\ result' = [success |-> r.ok]
        /\ call' = [op |-> "clear_memory", user_input |-> <<>>]
        /\ UNCHANGED <<now, nChats, pc, sessions>>

NextStore ==
    \/ AddMessage
    \/ ClearMemory

SpecStore == Init /\ [][NextStore]_vars

\* ------------------------------------------------------------------ claims
\* what stats reports
total_messages == get_memory_stats(memory_manager).total_messages
metadata == memory_manager.conversation_metadata

\* a and b are the same letter, in whatever case
CasePairs ==
    {<<UpperChars[i], LowerChars[i]>> : i \in 1..26}
    \cup {<<LowerChars[i], UpperChars[i]>> : i \in 1..26}

SameLetter(a, b) == a = b \/ <<a, b>> \in CasePairs

\* s contains a denylisted substring, in any letter case
HasDenylisted(s) ==
    \E n \in 1..Len(dangerous_patterns) :
        LET p == dangerous_patterns[n]
        IN  \E i \in 1..(Len(s) - Len(p) + 1) :
                \A j \in 1..Len(p) : SameLetter(s[i + j - 1], p[j])

IsBlank(s) == \A i \in 1..Len(s) : s[i] \in Whitespace

\* the inputs of the catalogue that contain a denylisted substring, that are
\* blank, that are longer than MAX_INPUT_LENGTH
Denylisted == {u \in AllInputs : HasDenylisted(u)}
Blank == {u \in AllInputs : IsBlank(u)}
OverLength == {u \in AllInputs : Len(u) > MAX_INPUT_LENGTH}

InvalidInputError == Literal("Input validation failed")
InternalApology ==
    Literal("I'm sorry, but I encountered an error. Please try again.")

\* a step that is a call of chat, of clear
ChatStep == call'.op = "chat" /\ now' = now
ClearStep == call'.op = "clear" /\ now' = now

\* C1: a chat call with an input longer than MAX_INPUT_LENGTH returns
\* success=false with the input-validation error and leaves total_messages
\* as it was.
C1_OverLengthRejected ==
    [][ (ChatStep /\ call'.user_input \in OverLength) =>
            /\ result'.success = FALSE
            /\ result'.error = InvalidInputError
            /\ Len(memory_manager'.memory) = total_messages ]_vars

C1_Witness ==
    /\ call.op = "chat"
    /\ call.user_input \in OverLength
    /\ result.success = FALSE
    /\ total_messages > 0

\* C2: a chat call whose input contains a denylisted substring, in any letter
\* case, returns success=false and appends no turn.
C2_DenylistedRejected ==
    [][ (ChatStep /\ call'.user_input \in Denylisted) =>
            /\ result'.success = FALSE
            /\ memory_manager'.memory = memory_manager.memory ]_vars

C2_Witness ==
    /\ call.op = "chat"
    /\ call.user_input = In_onload
    /\ result.success = FALSE
    /\ total_messages > 0

\* C3: a chat call rejected by validation (too long, empty or blank, or
\* denylisted) changes nothing: the stored turns, the metadata and the summary
\* memory are as before.
C3_RejectionChangesNothing ==
    [][ (/\ ChatStep
         /\ call'.user_input \in OverLength \cup Blank \cup Denylisted) =>
            /\ result'.success = FALSE
            /\ result'.error = InvalidInputError
            /\ memory_manager' = memory_manager ]_vars

C3_Witness ==
    /\ call.op = "chat"
    /\ call.user_input = In_blank
    /\ result.error = InvalidInputError
    /\ memory_manager.summary_memory.buffer # <<>>
    /\ metadata.total_tokens > 0

\* C4: the number of turns stats reports as total_messages never exceeds the
\* window maximum.
C4_WindowBounded == total_messages <= window_size

Min(a, b) == IF a <= b THEN a ELSE b

\* C5: after k answered chat calls from an empty session, k > window_size/2,
\* the window holds min(2k, window_size) turns (read as the stored turns or as
\* the context loaded for the model).
C5_WindowLength ==
    2 * nChats > window_size =>
        \/ Len(memory_manager.memory) = Min(2 * nChats, window_size)
        \/ Len(load_memory_variables(memory_manager)) = Min(2 * nChats, window_size)

\* C6: a chat call that returns success=true appends one human turn followed
\* by one assistant turn: total_messages grows by 2.
C6_TwoTurnsPerChat ==
    [][ (ChatStep /\ result'.success = TRUE) =>
            /\ Len(memory_manager'.memory) = total_messages + 2
            /\ memory_manager'.memory[total_messages + 1].type = "human"
            /\ memory_manager'.memory[total_messages + 2].type = "ai" ]_vars

\* C7 as stated: after clear, stats gives total_messages = 0, message_count = 0,
\* total_tokens = 0 and a start_time strictly later than the one before.
C7_StartTimeStrictlyLater ==
    [][ ClearStep =>
            /\ get_memory_stats(memory_manager').total_messages = 0
            /\ memory_manager'.conversation_metadata.message_count = 0
            /\ memory_manager'.conversation_metadata.total_tokens = 0
            /\ memory_manager'.conversation_metadata.start_time
                   > metadata.start_time ]_vars

\* C7 amended: after clear, stats gives total_messages = 0, message_count = 0,
\* total_tokens = 0 and the start_time is the clock reading taken by the clear;
\* it is later than the one before exactly when the clock has advanced since.
C7_ClearResets ==
    [][ ClearStep =>
            /\ result'.success = TRUE
            /\ get_memory_stats(memory_manager').total_messages = 0
            /\ memory_manager'.conversation_metadata.message_count = 0
            /\ memory_manager'.conversation_metadata.total_tokens = 0
            /\ memory_manager'.conversation_metadata.start_time = now
            /\ (memory_manager'.conversation_metadata.start_time > metadata.start_time
                    <=> now > metadata.start_time) ]_vars

C7_Witness ==
    /\ call.op = "clear"
    /\ nChats > 0
    /\ total_messages = 0
    /\ metadata.start_time > 0

\* C8: with chat the only mutator, export returns as many entries as there are
\* stored turns, their roles alternating human, ai, human, ai, ...
C8_ExportAlternates ==
    LET messages == export_conversation(memory_manager, now, 0).exported_data.messages
    IN  /\ Len(messages) = total_messages
        /\ \A i \in 1..Len(messages) :
               messages[i].type = IF i % 2 = 1 THEN "human" ELSE "ai"

\* C9: whatever the input and whatever fails, chat returns a result with a
\* boolean success and a response text, and with an error when success=false.
C9_StructuredResult ==
    call.op = "chat" =>
        /\ {"success", "response"} \subseteq DOMAIN result
        /\ result.success \in BOOLEAN
        /\ result.response \in Seq(STRING)
        /\ (~result.success => "error" \in DOMAIN result)

C9_Witness ==
    /\ call.op = "chat"
    /\ result.success = FALSE
    /\ result.error \in ErrorTexts

\* C10: the result of a chat call that failed internally holds the generic
\* apology and no text of the internal error.
C10_NoRawErrorText ==
    (call.op = "chat" /\ result.response = InternalApology) =>
        /\ result.success = FALSE
        /\ result.error \notin ErrorTexts

SummaryError == "Error generating conversation summary."

\* C11: a chat call during which the summarizer failed returns success=false
\* with the internal error, as a call during which the model failed does.
C11_SummarizerFailureFails ==
    (/\ call.op = "chat"
     /\ "conversation_summary" \in DOMAIN result
     /\ result.conversation_summary.text = SummaryError) =>
        /\ result.success = FALSE
        /\ result.response = InternalApology

RECURSIVE StoredWords(_)
StoredWords(messages) ==
    IF messages = <<>> THEN 0
    ELSE WordCount(Head(messages).content) + StoredWords(Tail(messages))

\* C13: in every reachable state total_tokens is the sum, over the stored
\* turns, of the number of whitespace-separated words of each turn's content.
C13_TokensMatchStoredTurns ==
    metadata.total_tokens = StoredWords(memory_manager.memory)

\* C14: clear returns true, and from any reachable state a second clear right
\* after the first returns true and leaves the window (empty), the digest
\* (empty) and the counters (zero) as the first left them.
C14_ClearIdempotent ==
    \A t1 \in now..MaxTime : \A t2 \in t1..MaxTime :
        LET once == clear_conversation(memory_manager, t1)
            twice == clear_conversation(once.mm, t2)
        IN  /\ once.ok = TRUE
            /\ twice.ok = TRUE
            /\ once.mm.memory = <<>>
            /\ once.mm.summary_memory = [messages |-> 0, buffer |-> <<>>]
            /\ once.mm.conversation_metadata.message_count = 0
            /\ once.mm.conversation_metadata.total_tokens = 0
            /\ twice.mm.memory = once.mm.memory
            /\ twice.mm.summary_memory = once.mm.summary_memory
            /\ twice.mm.conversation_metadata.message_count = 0
            /\ twice.mm.conversation_metadata.total_tokens = 0

\* a clear has emptied a session that held turns and a digest, and the clock
\* has advanced since
C14_Witness ==
    /\ call.op = "clear"
    /\ result.success = TRUE
    /\ nChats > 0
    /\ memory_manager.memory = <<>>
    /\ memory_manager.summary_memory.buffer = <<>>
    /\ now > metadata.start_time

\* the texts the call of thread t stores, and where the window holds them
TextsOf(t) ==
    UNION {{u, strip(u)} : u \in ThreadInputs[t] \cup {ThreadReply[t]}}
TurnsOf(t) ==
    {i \in 1..Len(memory_manager.memory) :
        memory_manager.memory[i].content \in TextsOf(t)}

\* C15: the appends of two concurrent chat calls on one session never
\* interleave: the turns one call has appended are next to each other in the
\* window, so that its human turn is followed by its own assistant turn.
C15_AppendsNeverInterleave ==
    \A t \in Threads :
        \A i \in TurnsOf(t) : \A j \in TurnsOf(t) :
            \A m \in i..j : m \in TurnsOf(t)

\* run alone, one thread's call is the call of chat
SoloCallIsChat ==
    \A t \in Threads :
        (pc[t].at = "done" /\ \A o \in Threads \ {t} : pc[o].at = "ready") =>
            \E llm \in ThreadLLM(t), failAt \in 0..MaxFailAt :
                LET r == chat(NewMemoryManager(0), pc[t].user_input,
                              [llm |-> llm, failAt |-> failAt])
                IN  r.mm = memory_manager /\ r.result = result

\* C16: an operation on one chatbot (chat, clear, stats, export) leaves the
\* window, the metadata and the digest of every other chatbot as they were,
\* however the chatbots' operations interleave.
C16_SessionsIndependent ==
    [][ \A s \in Sessions :
            s # call'.session =>
                sessions'[manager_of(s)] = sessions[manager_of(s)] ]_vars

\* chatbot 1 has been cleared while chatbot 2 holds turns and a digest
C16_Witness ==
    /\ call.op = "clear"
    /\ call.session = 1
    /\ nChats = MaxSessionChats
    /\ sessions[manager_of(1)].memory = <<>>
    /\ sessions[manager_of(2)].memory # <<>>
    /\ sessions[manager_of(2)].summary_memory.buffer # <<>>

\* the digest a summary request returns in the current state, the summarizer
\* working
DigestNow == get_conversation_summary(memory_manager, 0)

\* the human turns of the window folded once each, from an empty digest
FoldedOnce ==
    save_contexts([messages |-> 0, buffer |-> <<>>],
                  HumanContents(memory_manager.memory), 0).sm.buffer

\* C17: a summary request returns the digest of exactly the human turns in
\* the window, each folded once from an empty digest, and a second request
\* right after it returns the same digest.
C17_DigestOfWindow ==
    memory_manager.memory # <<>> =>
        /\ DigestNow.summary.history = FoldedOnce
        /\ get_conversation_summary(DigestNow.mm, 0).summary = DigestNow.summary

\* a step that is a call of stats, of the conversation history, of describe
ReadStep == call'.op \in {"stats", "history", "describe"} /\ now' = now

\* C18: the read operations (stats, conversation history, describe) leave the
\* window, the metadata and the summary memory, and so what has_summary
\* reports, as they were.
C18_ReadsChangeNothing ==
    [][ ReadStep =>
            /\ memory_manager' = memory_manager
            /\ get_memory_stats(memory_manager').has_summary
                   = get_memory_stats(memory_manager).has_summary ]_vars

\* what describe returns: the configured name, personality and model and the
\* fixed memory type and security features
BotInfo ==
    [ name |-> "MemoryBot",
      personality |-> "You are a helpful AI assistant with memory capabilities. You remember conversations and provide contextual responses.",
      model |-> "gpt-3.5-turbo",
      memory_type |-> "ConversationBufferWindowMemory with Summary",
      security_features |-> << "Input length validation", "Content sanitization",
                               "Dangerous pattern detection", "Memory size limits" >> ]

DescribeStep == call'.op = "describe" /\ now' = now

\* C19: describe changes no session state and returns the same result in
\* every state, whatever calls came before it.
C19_DescribeStatic ==
    [][ DescribeStep =>
            /\ memory_manager' = memory_manager
            /\ result' = BotInfo ]_vars

\* describe called on a session that holds turns
C19_Witness ==
    /\ call.op = "describe"
    /\ result = BotInfo
    /\ nChats > 0
    /\ memory_manager.memory # <<>>
    /\ memory_manager.summary_memory.buffer # <<>>

\* C20: _validate_input returns false exactly when the raw input is longer
\* than MAX_INPUT_LENGTH, or is empty or all whitespace, or contains a
\* denylisted substring in any letter case; it returns true for every other
\* input, one of exactly MAX_INPUT_LENGTH characters included, and the session
\* is as it was.
C20_ValidateExact ==
    call.op = "validate" =>
        /\ result.valid =
              ~ \/ Len(call.user_input) > MAX_INPUT_LENGTH
                \/ IsBlank(call.user_input)
                \/ HasDenylisted(call.user_input)
        /\ memory_manager = NewMemoryManager(0)

\* an input of exactly MAX_INPUT_LENGTH characters, padded with whitespace,
\* has been accepted
C20_Witness ==
    /\ call.op = "validate"
    /\ Len(call.user_input) = MAX_INPUT_LENGTH
    /\ call.user_input[1] \in Whitespace
    /\ result.valid = TRUE

\* the last turn of the window
LastTurn == memory_manager.memory[Len(memory_manager.memory)]

\* C21 as stated: whenever chat returns success=true, whatever text the model
\* returned, the last turn of the window is an assistant turn holding the
\* response returned to the caller.
C21_LastTurnIsResponse ==
    (call.op = "chat" /\ result.success = TRUE) =>
        /\ memory_manager.memory # <<>>
        /\ LastTurn.type = "ai"
        /\ LastTurn.content = result.response

\* C21 amended: whenever chat returns success=true the last turn of the
\* window is an assistant turn; it holds the returned response with leading
\* and trailing whitespace removed when the response has at most
\* MAX_INPUT_LENGTH characters, and the response as returned (the copy the
\* chain saved) when it is longer.
C21_LastTurnIsStoredResponse ==
    (call.op = "chat" /\ result.success = TRUE) =>
        /\ memory_manager.memory # <<>>
        /\ LastTurn.type = "ai"
        /\ LastTurn.content =
               IF Len(result.response) <= MAX_INPUT_LENGTH
               THEN strip(result.response)
               ELSE result.response

\* a successful chat whose reply is longer than MAX_INPUT_LENGTH
C21_Witness ==
    /\ call.op = "chat"
    /\ result.success = TRUE
    /\ Len(result.response) > MAX_INPUT_LENGTH
    /\ LastTurn.type = "ai"

\* the call of thread t is at the model call: chat has reached line 90
AtModelCall(t) == pc[t].at = "predict"

\* C22 as stated: the model is never called for an input that failed
\* validation, and whenever it is called the last turn of the window is the
\* human turn holding that call's input; the assistant turn comes after.
C22_OrderOfSteps ==
    \A t \in Threads :
        /\ AtModelCall(t) =>
              /\ pc[t].user_input \notin OverLength \cup Blank \cup Denylisted
              /\ memory_manager.memory # <<>>
              /\ LastTurn = HumanMessage(pc[t].user_input)
        /\ pc[t].at \in {"store", "finish"} => LastTurn.type = "ai"

\* C22 amended: the model is never called for an input that failed
\* validation, and whenever it is called the last turn of the window is the
\* human turn holding that call's input with leading and trailing whitespace
\* removed; the assistant turn comes after.
C22_OrderOfStepsStripped ==
    \A t \in Threads :
        /\ AtModelCall(t) =>
              /\ pc[t].user_input \notin OverLength \cup Blank \cup Denylisted
              /\ memory_manager.memory # <<>>
              /\ LastTurn = HumanMessage(strip(pc[t].user_input))
        /\ pc[t].at \in {"store", "finish"} => LastTurn.type = "ai"

\* the model is about to be called for a padded input, after an earlier call
C22_Witness ==
    /\ AtModelCall(2)
    /\ pc[2].user_input = In_padded
    /\ Len(memory_manager.memory) > 1
    /\ LastTurn.content = <<"a", " ", "b">>

\* the session is ready for a call: no call of chat is in progress
SessionReady == \A t \in Threads : pc[t].at \in {"ready", "done"}

\* the call of thread t has returned a result to its caller
Returned(t) ==
    /\ pc[t].at = "done"
    /\ call = [op |-> "chat", user_input |-> pc[t].user_input]
    /\ {"success", "response"} \subseteq DOMAIN result

\* C23: a session is either ready or processing one call of chat; every call,
\* whatever its outcome, returns a result and leaves the session ready for
\* the next call, the model call returning or raising.
C23_CallsReturn ==
    /\ [](SessionReady \/ \E t \in Threads :
              Processing(t) /\ \A o \in Threads \ {t} : ~Processing(o))
    /\ \A t \in Threads :
           Processing(t) ~> (SessionReady /\ Returned(t))

\* a call that failed at the model call has returned, and a call made after
\* it has returned too
C23_Witness ==
    /\ SessionReady
    /\ Returned(2)
    /\ pc[1].at = "done"
    /\ nChats = MaxSerialChats
    /\ result.success = FALSE
    /\ result.error \in ErrorTexts
    /\ Len(memory_manager.memory) > 1

\* a step that is a call of chat during which the model call raised
ModelFailedStep ==
    /\ ChatStep
    /\ result'.success = FALSE
    /\ result'.error \in ErrorTexts

\* C24: when the model call fails during chat, chat returns success=false and
\* the human turn appended before the call stays: the window has exactly one
\* more turn, that human turn, message_count is one higher and total_tokens
\* is higher by the number of words of the input.
C24_HumanTurnKept ==
    [][ ModelFailedStep =>
            /\ result'.response = InternalApology
            /\ Len(memory_manager'.memory) = Len(memory_manager.memory) + 1
            /\ SubSeq(memory_manager'.memory, 1, Len(memory_manager.memory))
                   = memory_manager.memory
            /\ memory_manager'.memory[Len(memory_manager'.memory)]
                   = HumanMessage(strip(call'.user_input))
            /\ memory_manager'.conversation_metadata.message_count
                   = metadata.message_count + 1
            /\ memory_manager'.conversation_metadata.total_tokens
                   = metadata.total_tokens + WordCount(call'.user_input)
            /\ memory_manager'.summary_memory = memory_manager.summary_memory ]_vars

\* the model call failed for an input of two words
C24_Witness ==
    /\ call.op = "chat"
    /\ call.user_input = In_padded
    /\ result.success = FALSE
    /\ result.error \in ErrorTexts
    /\ LastTurn.type = "human"
    /\ metadata.total_tokens = 2

\* the exchanges completed in the window: a human turn with the assistant
\* turn right after it
CompletedExchanges ==
    {i \in 1..(Len(memory_manager.memory) - 1) :
        /\ memory_manager.memory[i].type = "human"
        /\ memory_manager.memory[i + 1].type = "ai"}

\* C25: in every reachable state every entry of get_conversation_history
\* pairs a human turn (field human) with the assistant turn that answered it
\* (field ai), and there are as many entries as completed exchanges.
C25_HistoryPairsExchanges ==
    LET history == get_conversation_history(memory_manager)
    IN  /\ Len(history) = Cardinality(CompletedExchanges)
        /\ \A n \in 1..Len(history) :
               \E i \in CompletedExchanges :
                   /\ history[n].human = memory_manager.memory[i].content
                   /\ history[n].ai = memory_manager.memory[i + 1].content

\* a step that is a call of add_message, of clear_memory
AddStep == call'.op = "add_message"
ClearMemoryStep == call'.op = "clear_memory"

C27_StoredTurnsSanitized ==
    /\ \A i \in 1..Len(memory_manager.memory) :
           LET content == memory_manager.memory[i].content
           IN  /\ Len(content) <= MAX_INPUT_LENGTH
               /\ content = <<>> \/
                      (content[1] \notin Whitespace
                       /\ content[Len(content)] \notin Whitespace)
    /\ \A message \in OverLength, is_human \in BOOLEAN :
           add_message(memory_manager, message, is_human)
               = [mm |-> memory_manager, ok |-> FALSE]

\* with add_message the only way turns are appended, C27 holds
StoreKeepsSanitized == C27_StoredTurnsSanitized

====
